---------------------------- MODULE Spec2Model ----------------------------
(***************************************************************************)
(* A model of beta/phi_functions.py: the phi-function formulas (phi, _phi, *)
(* phi_mpmath_series), calculate_gamma, and the memoizing evaluator Phi.   *)
(*                                                                         *)
(* Numbers.  Real arithmetic is exact: a rational is a normalised pair     *)
(* <<n, d>>, and a real value met by the formulas is a Laurent polynomial  *)
(* in E = e^x with rational coefficients, x being the argument neg_h of    *)
(* the call.  Floating-point rounding is not modelled; the Python type of  *)
(* a coefficient (int, float, mpf) is, because the code branches on it.    *)
(***************************************************************************)
EXTENDS Integers, Sequences, FiniteSets, TLC

VARIABLES
    c,       \* the caller's coefficient sequence, passed to every Phi(h, c, ...)
    phis,    \* the Phi instances constructed so far: [h, c, phi_f, cache]
    dicts,   \* the heap of dict objects; an instance's cache is a reference into it
    hist,    \* per instance: key -> the value the first successful call returned
    last,    \* the most recent __call__: instance, key, outcome, probes
    ncalls,  \* number of __call__ invocations made so far
    pin,     \* inputs of the pure-function calls
    pout,    \* results of the pure-function calls on pin
    thr,     \* the threads of the concurrent run: position in __call__ and locals
    shadow   \* the cache of the serial reference run, and its phi-call count

vars == <<c, phis, dicts, hist, last, ncalls, pin, pout, thr, shadow>>

(***************************************************************************)
(* Bounds of the model.                                                    *)
(***************************************************************************)
MaxLen == 2          \* longest coefficient sequence
MaxJ == 1            \* largest order j passed to the evaluator
MaxCalls == 3        \* calls made on the evaluators in one run
MaxEvaluators == 2   \* Phi instances constructed in one run
MaxOrder == 3        \* largest order j passed to a formula directly
MaxThreadCalls == 3  \* calls started by the threads of the concurrent run
MaxThreads == 2      \* threads calling one instance concurrently

(***************************************************************************)
(* Rationals.                                                              *)
(***************************************************************************)
Abs(n) == IF n < 0 THEN -n ELSE n

RECURSIVE GCD(_, _)
GCD(a, b) == IF b = 0 THEN a ELSE GCD(b, a % b)

RNorm(n, d) ==
    LET s == IF d < 0 THEN -1 ELSE 1
        g == GCD(Abs(n), Abs(d))
    IN  <<(s * n) \div g, (s * d) \div g>>

R(n) == <<n, 1>>
R0 == R(0)
R1 == R(1)
RAdd(a, b) == RNorm(a[1] * b[2] + b[1] * a[2], a[2] * b[2])
RNeg(a) == <<-a[1], a[2]>>
RSub(a, b) == RAdd(a, RNeg(b))
RMul(a, b) == RNorm(a[1] * b[1], a[2] * b[2])
RInv(a) == RNorm(a[2], a[1])
RDiv(a, b) == RMul(a, RInv(b))

RECURSIVE RPowNat(_, _)
RPowNat(a, k) == IF k = 0 THEN R1 ELSE RMul(a, RPowNat(a, k - 1))

\* a ** k for an integer k; the caller excludes a = 0 with k < 0
RPow(a, k) == IF k >= 0 THEN RPowNat(a, k) ELSE RInv(RPowNat(a, -k))

\* math.factorial(n), called with n >= 0 only (phi asserts j > 0 first)
RECURSIVE factorial(_)
factorial(n) == IF n <= 0 THEN 1 ELSE n * factorial(n - 1)

(***************************************************************************)
(* Laurent polynomials in E = e^x: p[k] is the coefficient of E^k.         *)
(* The formulas multiply at most E by E^-1, so degrees -2..2 lose nothing. *)
(***************************************************************************)
Deg == -2 .. 2
PConst(r) == [k \in Deg |-> IF k = 0 THEN r ELSE R0]
PE(n) == [k \in Deg |-> IF k = n THEN R1 ELSE R0]
PAdd(p, q) == [k \in Deg |-> RAdd(p[k], q[k])]
PScale(r, p) == [k \in Deg |-> RMul(r, p[k])]
PSub(p, q) == PAdd(p, PScale(R(-1), q))

RECURSIVE RSum(_, _)
RSum(f, S) ==
    IF S = {} THEN R0
    ELSE LET k == CHOOSE k \in S : TRUE IN RAdd(f[k], RSum(f, S \ {k}))

PMul(p, q) ==
    [k \in Deg |->
        LET pairs == {i \in Deg : (k - i) \in Deg}
        IN  RSum([i \in pairs |-> RMul(p[i], q[k - i])], pairs)]

\* math.exp(y) inside a call whose argument is x: y is one of x, -x, 0
ExpP(y, x) ==
    IF y = R0 THEN PConst(R1)
    ELSE IF y = x THEN PE(1)
    ELSE PE(-1)

(***************************************************************************)
(* Values and outcomes.  A finite value is the polynomial together with    *)
(* the x it is a polynomial in, in canonical form; inf and nan are the     *)
(* IEEE values a tensor division by zero produces.                         *)
(***************************************************************************)
Fin(x, p) ==
    IF x = R0 THEN [kind |-> "fin", x |-> R0, co |-> PConst(RSum(p, Deg))]
    ELSE IF \A k \in Deg \ {0} : p[k] = R0 THEN [kind |-> "fin", x |-> R0, co |-> p]
    ELSE [kind |-> "fin", x |-> x, co |-> p]

Zero == Fin(R0, PConst(R0))
Inf == [kind |-> "inf", x |-> R0, co |-> PConst(R0)]
NaN == [kind |-> "nan", x |-> R0, co |-> PConst(R0)]

\* e^x as a value
ExpVal(x) == Fin(x, ExpP(x, x))

Return(v) == [ok |-> TRUE, val |-> v, err |-> "none"]
Raise(e) == [ok |-> FALSE, val |-> Zero, err |-> e]
NotCalled == [ok |-> FALSE, val |-> Zero, err |-> "not called"]

(***************************************************************************)
(* The formulas.                                                           *)
(***************************************************************************)
\* sum_{k=0..j-1} x^k / k!  (empty for j <= 0); 0 ** 0 is 1
Series(j, x) ==
    LET ks == 0 .. (j - 1)
    IN  RSum([k \in ks |-> RDiv(RPow(x, k), R(factorial(k)))], ks)

_phi(j, neg_h) ==
    LET remainder == Series(j, neg_h)
        num == PSub(ExpP(neg_h, neg_h), PConst(remainder))
    IN  IF neg_h = R0 /\ j > 0 THEN Return(NaN)
        ELSE IF neg_h = R0 /\ j < 0 THEN Return(Zero)
        ELSE Return(Fin(neg_h, PScale(RInv(RPow(neg_h, j)), num)))

\* faulty variant: a zero denominator gives the IEEE value whatever the operands' types
calculate_gamma_ieee(c2, c3) ==
    LET num == RSub(RMul(R(3), RPow(c3.v, 3)), RMul(R(2), c3.v))
        den == RMul(c2.v, RSub(R(2), RMul(R(3), c2.v)))
    IN  IF den # R0 THEN Return(Fin(R0, PConst(RDiv(num, den))))
        ELSE IF num = R0 THEN Return(NaN)
        ELSE Return(Inf)

calculate_gamma(c2, c3) ==
    LET num == RSub(RMul(R(3), RPow(c3.v, 3)), RMul(R(2), c3.v))
        den == RMul(c2.v, RSub(R(2), RMul(R(3), c2.v)))
    IN  IF den # R0 THEN Return(Fin(R0, PConst(RDiv(num, den))))
        ELSE IF c2.ty # "Tensor" /\ c3.ty # "Tensor" THEN Raise("ZeroDivisionError")
        ELSE IF num = R0 THEN Return(NaN)
        ELSE Return(Inf)

_gamma(n) == factorial(n - 1)

\* faulty variant: the sum stops one term early, range(s - 1)
_incomplete_gamma_short(s, x, gamma_s) ==
    LET sum_ == Series(s - 1, x)
    IN  PScale(RMul(sum_, R(gamma_s)), ExpP(RNeg(x), x))

_incomplete_gamma(s, x, gamma_s) ==
    LET sum_ == Series(s, x)
    IN  PScale(RMul(sum_, R(gamma_s)), ExpP(RNeg(x), x))

phi(j, neg_h) ==
    IF ~(j > 0) THEN Raise("AssertionError")
    ELSE LET gamma_ == _gamma(j)
             incomp_gamma_ == _incomplete_gamma(j, neg_h, gamma_)
         IN  IF neg_h = R0 THEN Raise("ZeroDivisionError")
             ELSE Return(Fin(neg_h,
                     PMul(PScale(RPow(neg_h, -j), ExpP(neg_h, neg_h)),
                          PSub(PConst(R1), PScale(RInv(R(gamma_)), incomp_gamma_)))))

\* faulty variant: the series asserts j > 0 as phi does
phi_mpmath_series_asserting(j, neg_h) ==
    LET z == neg_h
        S == Series(j, z)
    IN  IF ~(j > 0) THEN Raise("AssertionError")
        ELSE IF z = R0 THEN Raise("ZeroDivisionError")
        ELSE Return(Fin(z, PScale(RInv(RPow(z, j)), PSub(ExpP(z, z), PConst(S)))))

phi_mpmath_series(j, neg_h) ==
    LET z == neg_h
        S == Series(j, z)
    IN  IF z = R0 /\ j # 0 THEN Raise("ZeroDivisionError")
        ELSE Return(Fin(z, PScale(RInv(RPow(z, j)), PSub(ExpP(z, z), PConst(S)))))


(***************************************************************************)
(* Python values the evaluator branches on: a coefficient carries its type.*)
(***************************************************************************)
Coef(ty, v) == [ty |-> ty, v |-> v]
IntOne == Coef("int", R1)
NoCoef == Coef("none", R0)

\* mpf(c_val): the value kept, the type now mpf
mpf(cv) == Coef("mpf", cv.v)

EmptyDict == [k \in {} |-> Zero]

\* faulty variant: the store rebinds the cache to a dict holding the new entry only
DictSet_rebind(d, k, v) == [x \in {k} |-> v]

\* d[k] = v
DictSet(d, k, v) == [x \in (DOMAIN d) \cup {k} |-> IF x = k THEN v ELSE d[x]]

\* d[k]
DictGet(d, k) == IF k \in DOMAIN d THEN Return(d[k]) ELSE Raise("KeyError")

\* Python's list indexing cs[idx]: a negative idx counts from the end
getitem(cs, idx) ==
    LET n == Len(cs)
        pos == IF idx < 0 THEN idx + n ELSE idx
    IN  IF pos < 0 \/ pos >= n THEN [ok |-> FALSE, item |-> NoCoef]
        ELSE [ok |-> TRUE, item |-> cs[pos + 1]]

(***************************************************************************)
(* Inputs.                                                                 *)
(***************************************************************************)
Half == RNorm(1, 2)
TwoThirds == RNorm(2, 3)

\* coefficients: a zero, a non-zero float, a non-zero int
CVals == {Coef("float", R0), Coef("float", Half), Coef("int", R1)}
CSeqs == UNION {[1 .. n -> CVals] : n \in 0 .. MaxLen}
Hs == {R0, R(2)}
Js == 0 .. MaxJ
Is == -1 .. (MaxLen + 1)

\* every argument -h*c the evaluator can pass on
NegHs == {RNeg(RMul(h, cv.v)) : h \in Hs, cv \in CVals \cup {IntOne}}

\* the two formulas an instance can select (lines 101, 107), evaluated once
\* on every order and argument of the run
FormulaTable ==
    [f \in {"phi", "phi_mpmath_series"}, j \in Js, x \in NegHs |->
        IF f = "phi" THEN phi(j, x) ELSE phi_mpmath_series(j, x)]

(***************************************************************************)
(* class Phi.                                                              *)
(***************************************************************************)
\* faulty variant: cache = {} as a class attribute, one dict for every instance
SharedCacheRef(ndicts) == 1

\* self.cache = {}: a dict object of the instance's own, the next on the heap
NewCacheRef(ndicts) == ndicts + 1

Phi__init__(h, cs, analytic_solution, ndicts) ==
    IF analytic_solution
    THEN [h |-> h, c |-> [n \in 1 .. Len(cs) |-> mpf(cs[n])],
          phi_f |-> "phi_mpmath_series", cache |-> NewCacheRef(ndicts)]
    ELSE [h |-> h, c |-> cs, phi_f |-> "phi", cache |-> NewCacheRef(ndicts)]

\* self.phi_f(j, neg_h), read from the table of the formulas' results below
phi_f(self, j, neg_h) == FormulaTable[self.phi_f, j, neg_h]

\* faulty variant: the lookup never finds the key
InCache_never(d, key) == FALSE

\* line 111: (j, i) in self.cache
InCache(d, key) == key \in DOMAIN d

\* lines 114-117: the coefficient, or IndexError
Resolve(self, i) ==
    IF i < 0 THEN [ok |-> TRUE, item |-> IntOne]
    ELSE getitem(self.c, i - 1)

\* faulty variant: "c is 0", which a float zero does not satisfy
ZeroShortCircuit_is(i, cv) == i >= 0 /\ cv.v = R0 /\ cv.ty = "int"

\* line 118, reached only on the else branch of line 114
ZeroShortCircuit(i, cv) == i >= 0 /\ cv.v = R0

\* line 122: j == 0 and type(c) in {float, torch.Tensor}
UsesExp(j, cv) == j = 0 /\ cv.ty \in {"float", "Tensor"}

\* lines 122-125: the value, or the exception the formula raises
Compute(self, j, cv) ==
    LET neg_h == RNeg(RMul(self.h, cv.v))
    IN  IF UsesExp(j, cv) THEN Return(ExpVal(neg_h))
        ELSE phi_f(self, j, neg_h)

\* faulty variant: the result is stored in a finally clause, raised or not
CacheAfter_finally(d, key, result) == DictSet(d, key, result.val)

\* line 127 is reached only when lines 122-125 raised nothing
CacheAfter(d, key, result) ==
    IF result.ok THEN DictSet(d, key, result.val) ELSE d

\* __call__ as one step: the outcome, the dict afterwards, and what was called
CallRec(out, d, hit, nphi, nexp, cv) ==
    [out |-> out, cache |-> d, hit |-> hit, nphi |-> nphi, nexp |-> nexp, cv |-> cv]

Phi__call__(self, d, j, i) ==
    LET key == <<j, i>>
        r == Resolve(self, i)
        cv == r.item
        result == Compute(self, j, cv)
    IN  IF InCache(d, key) THEN CallRec(DictGet(d, key), d, TRUE, 0, 0, NoCoef)
        ELSE IF ~r.ok THEN CallRec(Raise("IndexError"), d, FALSE, 0, 0, NoCoef)
        ELSE IF ZeroShortCircuit(i, cv)
             THEN CallRec(Return(Zero), DictSet(d, key, Zero), FALSE, 0, 0, cv)
        ELSE IF UsesExp(j, cv)
             THEN CallRec(result, CacheAfter(d, key, result), FALSE, 0, 1, cv)
        ELSE CallRec(result, CacheAfter(d, key, result), FALSE, 1, 0, cv)

NoCall ==
    [e |-> 0, j |-> 0, i |-> 0, out |-> NotCalled, hit |-> FALSE,
     nphi |-> 0, nexp |-> 0, cv |-> NoCoef]

NoPout == [phi |-> NotCalled, rem |-> NotCalled, mp |-> NotCalled, gamma |-> NotCalled]

CacheOf(e) == dicts[phis[e].cache]

(***************************************************************************)
(* The evaluator, called sequentially.                                     *)
(***************************************************************************)
Init ==
    /\ c \in CSeqs
    /\ \E h \in Hs, a \in BOOLEAN : phis = <<Phi__init__(h, c, a, 0)>>
    /\ dicts = <<EmptyDict>>
    /\ hist = <<EmptyDict>>
    /\ last = NoCall
    /\ ncalls = 0
    /\ pin = <<>>
    /\ pout = <<>>
    /\ thr = <<>>
    /\ shadow = <<>>

\* Phi(h, c, analytic_solution): a further instance on the same coefficients
NewPhi(h, a) ==
    /\ Len(phis) < MaxEvaluators
    /\ phis' = Append(phis, Phi__init__(h, c, a, Len(dicts)))
    /\ dicts' = Append(dicts, EmptyDict)
    /\ hist' = Append(hist, EmptyDict)
    /\ UNCHANGED <<c, last, ncalls, pin, pout, thr, shadow>>

\* phis[e](j, i)
Call(e, j, i) ==
    /\ ncalls < MaxCalls
    /\ e \in 1 .. Len(phis)
    /\ LET self == phis[e]
           r == Phi__call__(self, CacheOf(e), j, i)
           key == <<j, i>>
       IN  /\ dicts' = [dicts EXCEPT ![self.cache] = r.cache]
           /\ hist' = [hist EXCEPT ![e] =
                         IF r.out.ok /\ key \notin DOMAIN hist[e]
                         THEN DictSet(hist[e], key, r.out.val) ELSE hist[e]]
           /\ last' = [e |-> e, j |-> j, i |-> i, out |-> r.out, hit |-> r.hit,
                       nphi |-> r.nphi, nexp |-> r.nexp, cv |-> r.cv]
    /\ ncalls' = ncalls + 1
    /\ UNCHANGED <<c, phis, pin, pout, thr, shadow>>

Next ==
    \/ \E h \in Hs, a \in BOOLEAN : NewPhi(h, a)
    \/ \E e \in 1 .. MaxEvaluators, j \in Js, i \in Is : Call(e, j, i)

Spec == Init /\ [][Next]_vars

(***************************************************************************)
(* Claims about the evaluator (Spec).                                      *)
(***************************************************************************)
Made == last.e # 0
LastSelf == phis[last.e]
LastKey == <<last.j, last.i>>
InRange(i, cs) == i \in 1 .. Len(cs)

\* C1, as stated: on a standard-precision evaluator evaluate(0, i) returns
\* exp(-h*c_val), c_val being 1 for i < 0 and c[i-1] otherwise, and never
\* calls the formula phi.
C1_OrderZeroIsExp ==
    (/\ Made /\ LastSelf.phi_f = "phi" /\ last.j = 0
     /\ (last.i < 0 \/ InRange(last.i, LastSelf.c))) =>
        LET c_val == IF last.i < 0 THEN R1 ELSE LastSelf.c[last.i].v
        IN  /\ last.out = Return(ExpVal(RNeg(RMul(LastSelf.h, c_val))))
            /\ last.nphi = 0

\* C2: once evaluate(j, i) has returned a value, every later evaluate(j, i)
\* on that instance returns the same value, calls neither phi nor exp, and
\* leaves every cache as it was.
C2_CacheHit ==
    [][(ncalls' = ncalls + 1 /\ <<last'.j, last'.i>> \in DOMAIN hist[last'.e]) =>
           /\ last'.out = Return(hist[last'.e][<<last'.j, last'.i>>])
           /\ last'.hit /\ last'.nphi = 0 /\ last'.nexp = 0
           /\ dicts' = dicts]_vars

C2_Witness ==
    /\ Made /\ last.hit /\ ncalls = MaxCalls
    /\ last.out.ok /\ last.out.val # Zero
    /\ Cardinality(DOMAIN CacheOf(last.e)) >= 2

\* C3: for every order j, 0 included, and every i >= 0 whose coefficient
\* c[i-1] is 0, evaluate(j, i) returns 0, has 0 in the cache under (j, i), and
\* calls neither phi nor exp.
C3_ZeroCoefficient ==
    (/\ Made /\ last.i >= 0
     /\ getitem(LastSelf.c, last.i - 1).ok
     /\ getitem(LastSelf.c, last.i - 1).item.v = R0) =>
        /\ last.out = Return(Zero)
        /\ LastKey \in DOMAIN CacheOf(last.e)
        /\ CacheOf(last.e)[LastKey] = Zero
        /\ last.nphi = 0 /\ last.nexp = 0

C3_Witness ==
    /\ Made /\ ~last.hit /\ last.j = 0 /\ InRange(last.i, LastSelf.c)
    /\ LastSelf.c[last.i] = Coef("float", R0)
    /\ LastSelf.phi_f = "phi"
    /\ last.out = Return(Zero)

\* C4: a call that fails raises its error, adds no cache entry and changes
\* none; and every call returns what it would return on an instance on which
\* no call, failed or not, had been made before.
C4_FailedCallChangesNothing ==
    [][(ncalls' = ncalls + 1) =>
           /\ ~last'.out.ok =>
                 /\ last'.out.err \in {"IndexError", "AssertionError", "ZeroDivisionError"}
                 /\ dicts' = dicts
           /\ last'.out = Phi__call__(phis[last'.e], EmptyDict, last'.j, last'.i).out]_vars

C4_Witness ==
    /\ Made /\ ~last.out.ok /\ last.out.err = "ZeroDivisionError"
    /\ DOMAIN CacheOf(last.e) # {}
    /\ LastKey \notin DOMAIN CacheOf(last.e)

\* C5, as stated: the coefficient is 1 for i < 0 and c[i-1] for
\* 1 <= i <= len(c), and every other i >= 0 (i = 0 and i > len(c)) raises.
C5_IndexOutsideRangeRaises ==
    (Made /\ ~last.hit) =>
        /\ last.i < 0 => last.cv = IntOne
        /\ InRange(last.i, LastSelf.c) => last.cv = LastSelf.c[last.i]
        /\ (last.i >= 0 /\ ~InRange(last.i, LastSelf.c)) => last.out = Raise("IndexError")

\* C9: an instance's cache is a dict of its own, and it holds exactly the
\* keys whose call returned without error, each with the value that call
\* returned first: empty at construction, nothing removed, nothing changed.
C9_CacheIsHistory ==
    /\ \A e \in 1 .. Len(phis) : CacheOf(e) = hist[e]
    /\ \A e1, e2 \in 1 .. Len(phis) : e1 # e2 => phis[e1].cache # phis[e2].cache

C9_Witness ==
    /\ Len(phis) = 2
    /\ DOMAIN CacheOf(1) # {} /\ DOMAIN CacheOf(2) # {}
    /\ DOMAIN CacheOf(1) # DOMAIN CacheOf(2)
    /\ Made /\ ~last.out.ok

(***************************************************************************)
(* The formulas called directly, each once, on the same inputs.            *)
(***************************************************************************)
Orders == -1 .. MaxOrder
Xs == {R(-2), R(-1), RNeg(Half), R0, Half, R(2)}
PhiInputs == {[fam |-> "phi", j |-> j, x |-> x, c2 |-> NoCoef, c3 |-> NoCoef] :
                 j \in Orders, x \in Xs}
GammaTypes == {"float", "Tensor"}
GammaInputs ==
    {[fam |-> "gamma", j |-> 0, x |-> R0, c2 |-> Coef(t2, v2), c3 |-> Coef(t3, v3)] :
        t2 \in GammaTypes, v2 \in {R0, Half, TwoThirds, R1},
        t3 \in GammaTypes, v3 \in {R0, Half, R1}}

InitPure ==
    /\ pin \in PhiInputs \cup GammaInputs
    /\ pout = NoPout
    /\ c = <<>>
    /\ phis = <<>>
    /\ dicts = <<>>
    /\ hist = <<>>
    /\ last = <<>>
    /\ ncalls = 0
    /\ thr = <<>>
    /\ shadow = <<>>

PureRest == <<c, phis, dicts, hist, last, ncalls, pin, thr, shadow>>

CallPhi ==
    /\ pin.fam = "phi" /\ pout.phi = NotCalled
    /\ pout' = [pout EXCEPT !.phi = phi(pin.j, pin.x)]
    /\ UNCHANGED PureRest

CallRemainderPhi ==
    /\ pin.fam = "phi" /\ pout.rem = NotCalled
    /\ pout' = [pout EXCEPT !.rem = _phi(pin.j, pin.x)]
    /\ UNCHANGED PureRest

CallPhiMpmathSeries ==
    /\ pin.fam = "phi" /\ pout.mp = NotCalled
    /\ pout' = [pout EXCEPT !.mp = phi_mpmath_series(pin.j, pin.x)]
    /\ UNCHANGED PureRest

CallCalculateGamma ==
    /\ pin.fam = "gamma" /\ pout.gamma = NotCalled
    /\ pout' = [pout EXCEPT !.gamma = calculate_gamma(pin.c2, pin.c3)]
    /\ UNCHANGED PureRest

NextPure ==
    \/ CallPhi
    \/ CallRemainderPhi
    \/ CallPhiMpmathSeries
    \/ CallCalculateGamma

SpecPure == InitPure /\ [][NextPure]_vars

(***************************************************************************)
(* One instance called by several threads.  A step is one access to the    *)
(* shared dict or the computation between two accesses; shadow is the      *)
(* cache of the serial run that makes the same calls one after the other,  *)
(* in the order in which they return.  The dict operations (in, [], []=)  *)
(* are atomic, as the interpreter makes them.                              *)
(***************************************************************************)
Threads == 1 .. MaxThreads
Idle == [pc |-> "idle", j |-> 0, i |-> 0, cv |-> NoCoef, result |-> NotCalled,
         out |-> NotCalled, ser |-> NotCalled]

InitConc ==
    /\ c \in CSeqs
    /\ \E h \in Hs, a \in BOOLEAN : phis = <<Phi__init__(h, c, a, 0)>>
    /\ dicts = <<EmptyDict>>
    /\ shadow = EmptyDict
    /\ thr = [t \in Threads |-> Idle]
    /\ ncalls = 0
    /\ hist = <<>>
    /\ last = <<>>
    /\ pin = <<>>
    /\ pout = <<>>

ConcRest == <<c, phis, hist, last, pin, pout>>
TKey(t) == <<thr[t].j, thr[t].i>>

\* the call of thread t returns or raises: the serial run makes it now
Finish(t, out) ==
    LET ser == Phi__call__(phis[1], shadow, thr[t].j, thr[t].i)
    IN  /\ thr' = [thr EXCEPT ![t].pc = "idle", ![t].out = out, ![t].ser = ser.out]
        /\ shadow' = ser.cache

\* thread t enters __call__(j, i)
Begin(t, j, i) ==
    /\ thr[t].pc = "idle" /\ ncalls < MaxThreadCalls
    /\ thr' = [thr EXCEPT ![t] = [Idle EXCEPT !.pc = "l111", !.j = j, !.i = i]]
    /\ ncalls' = ncalls + 1
    /\ UNCHANGED <<dicts, shadow>> /\ UNCHANGED ConcRest

\* line 111
Lookup(t) ==
    /\ thr[t].pc = "l111"
    /\ thr' = [thr EXCEPT ![t].pc = IF InCache(CacheOf(1), TKey(t)) THEN "l112" ELSE "l114"]
    /\ UNCHANGED <<dicts, shadow, ncalls>> /\ UNCHANGED ConcRest

\* line 112
ReturnCached(t) ==
    /\ thr[t].pc = "l112"
    /\ Finish(t, DictGet(CacheOf(1), TKey(t)))
    /\ UNCHANGED <<dicts, ncalls>> /\ UNCHANGED ConcRest

\* lines 114-118
ResolveStep(t) ==
    /\ thr[t].pc = "l114"
    /\ LET r == Resolve(phis[1], thr[t].i)
       IN  IF ~r.ok THEN Finish(t, Raise("IndexError"))
           ELSE /\ thr' = [thr EXCEPT ![t].cv = r.item,
                                      ![t].pc = IF ZeroShortCircuit(thr[t].i, r.item)
                                                THEN "l119" ELSE "l122"]
                /\ UNCHANGED shadow
    /\ UNCHANGED <<dicts, ncalls>> /\ UNCHANGED ConcRest

\* lines 119-120
StoreZero(t) ==
    /\ thr[t].pc = "l119"
    /\ dicts' = [dicts EXCEPT ![phis[1].cache] = DictSet(@, TKey(t), Zero)]
    /\ Finish(t, Return(Zero))
    /\ UNCHANGED ncalls /\ UNCHANGED ConcRest

\* lines 122-125
ComputeStep(t) ==
    /\ thr[t].pc = "l122"
    /\ LET result == Compute(phis[1], thr[t].j, thr[t].cv)
       IN  IF ~result.ok THEN Finish(t, result)
           ELSE /\ thr' = [thr EXCEPT ![t].result = result, ![t].pc = "l127"]
                /\ UNCHANGED shadow
    /\ UNCHANGED <<dicts, ncalls>> /\ UNCHANGED ConcRest

\* lines 127-129
StoreResult(t) ==
    /\ thr[t].pc = "l127"
    /\ dicts' = [dicts EXCEPT ![phis[1].cache] = DictSet(@, TKey(t), thr[t].result.val)]
    /\ Finish(t, thr[t].result)
    /\ UNCHANGED ncalls /\ UNCHANGED ConcRest

NextConc ==
    \/ \E t \in Threads, j \in Js, i \in Is : Begin(t, j, i)
    \/ \E t \in Threads : Lookup(t)
    \/ \E t \in Threads : ReturnCached(t)
    \/ \E t \in Threads : ResolveStep(t)
    \/ \E t \in Threads : StoreZero(t)
    \/ \E t \in Threads : ComputeStep(t)
    \/ \E t \in Threads : StoreResult(t)

SpecConc == InitConc /\ [][NextConc]_vars

(***************************************************************************)
(* Claims about concurrent calls (SpecConc).                               *)
(***************************************************************************)
Quiescent == \A t \in Threads : thr[t].pc = "idle"

\* C10: under any interleaving every call returns what the serial run returns
\* for it, every cache entry is the value a call on a fresh instance returns,
\* and when no call is in flight the cache is the serial run's cache.
C10_BenignRace ==
    /\ \A t \in Threads : thr[t].pc = "idle" => thr[t].out = thr[t].ser
    /\ \A k \in DOMAIN CacheOf(1) :
          Return(CacheOf(1)[k]) = Phi__call__(phis[1], EmptyDict, k[1], k[2]).out
    /\ Quiescent => CacheOf(1) = shadow

\* two calls of the same key have both computed the formula, one has stored
\* and returned, the other is about to store
C10_Witness ==
    \E t, u \in Threads :
        /\ t # u /\ TKey(t) = TKey(u) /\ thr[t].j >= 1
        /\ thr[t].pc = "l127" /\ thr[u].pc = "idle" /\ thr[u].out.ok
        /\ ~thr[u].out.val = Zero
        /\ TKey(t) \in DOMAIN CacheOf(1)

(***************************************************************************)
(* Claims about the formulas (SpecPure).                                   *)
(***************************************************************************)
Formulas == {"phi", "rem", "mp"}
Called(f) == pout[f] # NotCalled

\* C6, as stated: each of phi, _phi and phi_mpmath_series rejects an order
\* j <= 0 with an error and never returns a value for it.
C6_AllFormulasRejectNonPositiveOrder ==
    (pin.fam = "phi" /\ pin.j <= 0) =>
        \A f \in Formulas : Called(f) => ~pout[f].ok

\* C6, amended: only phi rejects j <= 0, with its assertion at entry; _phi and
\* phi_mpmath_series do not check j, and for j <= 0 and neg_h # 0 their sum is
\* empty and they return e^neg_h / neg_h^j (e^neg_h for j = 0).
C6_OnlyPhiRejectsNonPositiveOrder ==
    (pin.fam = "phi" /\ pin.j <= 0) =>
        /\ Called("phi") => pout.phi = Raise("AssertionError")
        /\ \A f \in {"rem", "mp"} :
              (Called(f) /\ pin.x # R0) =>
                  pout[f] = Return(Fin(pin.x, PScale(RPow(pin.x, -pin.j), PE(1))))

C6_Witness ==
    /\ pin.fam = "phi" /\ pin.j < 0 /\ pin.x # R0
    /\ \A f \in Formulas : Called(f)
    /\ pout.mp.ok /\ pout.mp.val # Zero

GammaNum == RSub(RMul(R(3), RPow(pin.c3.v, 3)), RMul(R(2), pin.c3.v))
GammaDen == RMul(pin.c2.v, RSub(R(2), RMul(R(3), pin.c2.v)))
GammaOnNumbers == pin.c2.ty # "Tensor" /\ pin.c3.ty # "Tensor"

\* C8, as stated: calculate_gamma returns the quotient for every input, and
\* with a zero denominator it returns an infinity or NaN and raises nothing.
C8_ZeroDenominatorNeverRaises ==
    (pin.fam = "gamma" /\ Called("gamma")) =>
        /\ GammaDen # R0 => pout.gamma = Return(Fin(R0, PConst(RDiv(GammaNum, GammaDen))))
        /\ GammaDen = R0 => (pout.gamma.ok /\ pout.gamma.val.kind \in {"inf", "nan"})

\* C8, amended: calculate_gamma returns the quotient whenever the denominator
\* is not zero; with a zero denominator it raises ZeroDivisionError when both
\* arguments are Python numbers, and returns an infinity or NaN only when an
\* argument is a tensor.
C8_ZeroDenominatorRaisesOnNumbers ==
    (pin.fam = "gamma" /\ Called("gamma")) =>
        /\ GammaDen # R0 => pout.gamma = Return(Fin(R0, PConst(RDiv(GammaNum, GammaDen))))
        /\ (GammaDen = R0 /\ GammaOnNumbers) => pout.gamma = Raise("ZeroDivisionError")
        /\ (GammaDen = R0 /\ ~GammaOnNumbers) =>
              (pout.gamma.ok /\ pout.gamma.val.kind \in {"inf", "nan"})

C8_Witness ==
    /\ pin.fam = "gamma" /\ Called("gamma")
    /\ pin.c2.v = TwoThirds /\ GammaOnNumbers
    /\ pout.gamma = Raise("ZeroDivisionError")

=============================================================================
